---- MODULE Spec2Model ----
(***************************************************************************)
(* The module graph builder of src/graph.rs: Builder::build, load,         *)
(* resolve, resolve_load and visit, and the graph they populate.           *)
(***************************************************************************)
EXTENDS Integers, Sequences, FiniteSets, TLC

VARIABLES
  root,             \* ModuleGraph.root
  is_dynamic_root,  \* Builder.is_dynamic_root
  maybe_resolver,   \* Builder.maybe_resolver: <<>> (None) or <<resolver>>
  maybe_locker,     \* ModuleGraph.maybe_locker: <<>> (None) or <<locker>>
  loader,           \* Builder.loader: <<answers>>, or <<>> when its answers are left open
  modules,          \* ModuleGraph.modules: specifier -> ModuleSlot
  redirects,        \* ModuleGraph.redirects: requested -> effective
  pending,          \* Builder.pending: the in-flight load futures
  pc,               \* where build() is: "new", "loop", "done"
  loader_calls,     \* the loader: how often load() was called per specifier
  discovered,       \* history: the root and every specifier an import resolved to
  completed,        \* history: requested specifier -> the completion of its load
  writer,           \* history: specifier -> requested specifier whose completion last wrote its slot
  trace             \* history: what the latest visit (or resolve call) did, in order

vars == <<root, is_dynamic_root, maybe_resolver, maybe_locker, loader, modules, redirects, pending, pc,
          loader_calls, discovered, completed, writer, trace>>

----------------------------------------------------------------------------
(* Bounds *)

\* reference comments per module (visit specification)
MaxRefs == 2
\* import descriptors per module (visit specification)
MaxDeps == 2
\* import descriptors per module (traversal specification)
MaxImports == 2

----------------------------------------------------------------------------
(* Specifiers, import strings, and the collaborators' value types *)

Schemes == {"https", "http", "file"}
Paths == {"/mod.ts", "/a.ts", "/b.js"}

Url(scheme, path) == [scheme |-> scheme, path |-> path]

\* ModuleSpecifier: an absolute identifier with a scheme
ModuleSpecifier == {Url(s, p) : s \in Schemes, p \in Paths}

\* import strings that are relative paths, and the path each names
RelativeImports == ("./a.ts" :> "/a.ts") @@ ("./b.js" :> "/b.js")

\* import strings that are absolute URLs, and the specifier each names
AbsoluteImports ==
  ("https://h/a.ts" :> Url("https", "/a.ts")) @@
  ("http://h/a.ts" :> Url("http", "/a.ts")) @@
  ("file:///a.ts" :> Url("file", "/a.ts"))

\* every import string of the model; "bare" has no scheme and no ./ prefix
ImportStrings == DOMAIN RelativeImports \cup DOMAIN AbsoluteImports \cup {"bare"}

Ok(v) == [ok |-> TRUE, value |-> v]
Err(e) == [ok |-> FALSE, error |-> e]

\* module_specifier::resolve_import: an absolute URL names itself, a relative
\* path is joined onto the referrer, anything else is rejected
resolve_import(specifier, referrer) ==
  IF specifier \in DOMAIN AbsoluteImports THEN Ok(AbsoluteImports[specifier])
  ELSE IF specifier \in DOMAIN RelativeImports
       THEN Ok(Url(referrer.scheme, RelativeImports[specifier]))
       ELSE Err("ImportPrefixMissing")

\* ast::Range; Range::default() is the empty range at the start of the file
DefaultRange == 0

Span(referrer, range) == [specifier |-> referrer, range |-> range]

\* enum Resolved
Resolved_Specifier(specifier, span) ==
  [tag |-> "Specifier", specifier |-> specifier, span |-> span]
Resolved_Err(error, span) == [tag |-> "Err", error |-> error, span |-> span]
Resolved_None == [tag |-> "None"]

\* Resolved::is_none
is_none(resolved) == resolved = Resolved_None

\* Dependency::default()
Dependency_default ==
  [maybe_code |-> Resolved_None, maybe_type |-> Resolved_None, is_dynamic |-> FALSE]

\* Module::new
Module_new(specifier, source) ==
  [dependencies |-> [k \in {} |-> k],
   maybe_types_dependency |-> <<>>,
   media_type |-> "Unknown",
   source |-> source,
   specifier |-> specifier]

\* enum ModuleSlot
ModuleSlot_Module(module) == [tag |-> "Module", module |-> module]
ModuleSlot_Err(error) == [tag |-> "Err", error |-> error]
ModuleSlot_Missing == [tag |-> "Missing"]
ModuleSlot_Pending == [tag |-> "Pending"]

\* HashMap::insert
Insert(map, key, value) ==
  [k \in DOMAIN map \cup {key} |-> IF k = key THEN value ELSE map[k]]

\* HashMap::entry(key).or_default()
EntryOrDefault(map, key) == IF key \in DOMAIN map THEN map[key] ELSE Dependency_default

EmptyMap == [k \in {} |-> k]

----------------------------------------------------------------------------
(* Builder::resolve *)

\* the target the resolver, or the default resolution, gives (before the policies)
resolved_specifier(resolver, specifier, referrer) ==
  IF resolver # <<>>
  THEN LET r == resolver[1][<<specifier, referrer>>]
       IN IF r.ok THEN r ELSE Err("ResolverError")
  ELSE LET r == resolve_import(specifier, referrer)
       IN IF r.ok THEN r ELSE Err("InvalidSpecifier")

\* mutant: the downgrade policy waived for a remapped resolution, like the local one
policies_downgrade_unless_remapped(remapped, target, referrer, span) ==
  IF target.ok
  THEN IF referrer.scheme = "https" /\ target.value.scheme = "http" /\ ~remapped
       THEN Resolved_Err("InvalidDowngrade", span)
       ELSE IF referrer.scheme \in {"https", "http"}
               /\ ~(target.value.scheme \in {"https", "http"})
               /\ ~remapped
            THEN Resolved_Err("InvalidLocalImport", span)
            ELSE Resolved_Specifier(target.value, span)
  ELSE Resolved_Err(target.error, span)

\* mutant: the local-import policy applied to remapped resolutions too
policies_local_always(remapped, target, referrer, span) ==
  IF target.ok
  THEN IF referrer.scheme = "https" /\ target.value.scheme = "http"
       THEN Resolved_Err("InvalidDowngrade", span)
       ELSE IF referrer.scheme \in {"https", "http"}
               /\ ~(target.value.scheme \in {"https", "http"})
            THEN Resolved_Err("InvalidLocalImport", span)
            ELSE Resolved_Specifier(target.value, span)
  ELSE Resolved_Err(target.error, span)

\* the match on resolved_specifier: the two policies, in order
policies(remapped, target, referrer, span) ==
  IF target.ok
  THEN IF referrer.scheme = "https" /\ target.value.scheme = "http"
       THEN Resolved_Err("InvalidDowngrade", span)
       ELSE IF referrer.scheme \in {"https", "http"}
               /\ ~(target.value.scheme \in {"https", "http"})
               /\ ~remapped
            THEN Resolved_Err("InvalidLocalImport", span)
            ELSE Resolved_Specifier(target.value, span)
  ELSE Resolved_Err(target.error, span)

\* remapped is set exactly when a resolver is configured
resolve(resolver, specifier, referrer, range) ==
  policies(resolver # <<>>,
           resolved_specifier(resolver, specifier, referrer),
           referrer,
           Span(referrer, range))

----------------------------------------------------------------------------
(* The parser and the content classifier *)

\* a source text: whether it parses, and the reference comments and import
\* statements written in it, in source order
Source(valid, references, dependencies) ==
  [valid |-> valid, references |-> references, dependencies |-> dependencies]

\* the range of the i-th reference comment, of the j-th import statement's
\* specifier, and of the @deno-types comment above the j-th import statement
ReferenceRange(i) == i
ImportRange(j) == 100 + 2 * j
DenoTypesRange(j) == 99 + 2 * j

\* ast::parse: a diagnostic, or the parsed module
ast_parse(specifier, source, media_type) ==
  IF source.valid THEN Ok(source) ELSE Err("Diagnostic")

\* ParsedModule::analyze_ts_references: TypeScriptReference::Path / ::Types,
\* each with the comment's range
analyze_ts_references(parsed_module) ==
  [i \in 1..Len(parsed_module.references) |->
     [kind |-> parsed_module.references[i].kind,
      specifier |-> parsed_module.references[i].specifier,
      range |-> ReferenceRange(i)]]

\* ParsedModule::analyze_dependencies with range_from_span and
\* analyze_deno_types applied to each descriptor
analyze_dependencies(parsed_module) ==
  [j \in 1..Len(parsed_module.dependencies) |->
     [specifier |-> parsed_module.dependencies[j].specifier,
      range |-> ImportRange(j),
      is_dynamic |-> parsed_module.dependencies[j].is_dynamic,
      deno_types |->
        IF parsed_module.dependencies[j].deno_types = <<>> THEN <<>>
        ELSE <<[specifier |-> parsed_module.dependencies[j].deno_types[1],
                range |-> DenoTypesRange(j)]>>]]

\* MediaType::from(&specifier): by the specifier's extension
MediaType_from(specifier) ==
  IF specifier.path = "/b.js" THEN "JavaScript" ELSE "TypeScript"

\* MediaType::from_content_type
MediaType_from_content_type(specifier, content_type) ==
  IF content_type = "application/javascript" THEN "JavaScript"
  ELSE IF content_type = "application/typescript" THEN "TypeScript"
  ELSE MediaType_from(specifier)

\* LoadResponse
LoadResponse(specifier, maybe_headers, content) ==
  [specifier |-> specifier, maybe_headers |-> maybe_headers, content |-> content]

\* the response's headers: each of the two the builder reads is absent or given
Headers(content_type, x_typescript_types) ==
  [content_type |-> content_type, x_typescript_types |-> x_typescript_types]

----------------------------------------------------------------------------
(* Builder::load and Builder::resolve_load.  self is the builder:          *)
(* [modules, pending, loader_calls, maybe_resolver]                        *)

\* a LoadFuture, which completes with the specifier it was asked for
LoadFuture(specifier, is_dynamic) == [specifier |-> specifier, is_dynamic |-> is_dynamic]

Calls(calls, specifier) == IF specifier \in DOMAIN calls THEN calls[specifier] ELSE 0

\* mutant: a specifier whose slot is still Pending is loaded again
load_unless_terminal(self, specifier, is_dynamic) ==
  IF specifier \notin DOMAIN self.modules \/ self.modules[specifier].tag = "Pending"
  THEN [self EXCEPT
          !.modules = Insert(@, specifier, ModuleSlot_Pending),
          !.loader_calls = Insert(@, specifier, Calls(@, specifier) + 1),
          !.pending = @ \cup {LoadFuture(specifier, is_dynamic)}]
  ELSE self

\* mutant: a load is issued whether or not the specifier has a slot
load_always(self, specifier, is_dynamic) ==
  [self EXCEPT
     !.modules = Insert(@, specifier, ModuleSlot_Pending),
     !.loader_calls = Insert(@, specifier, Calls(@, specifier) + 1),
     !.pending = @ \cup {LoadFuture(specifier, is_dynamic)}]

load(self, specifier, is_dynamic) ==
  IF specifier \notin DOMAIN self.modules
  THEN [self EXCEPT
          !.modules = Insert(@, specifier, ModuleSlot_Pending),
          !.loader_calls = Insert(@, specifier, Calls(@, specifier) + 1),
          !.pending = @ \cup {LoadFuture(specifier, is_dynamic)}]
  ELSE self

\* the load that follows a resolution
load_resolved(self, resolved_import, is_dynamic) ==
  [self |-> IF resolved_import.tag = "Specifier"
            THEN load(self, resolved_import.specifier, is_dynamic)
            ELSE self,
   resolved |-> resolved_import]

\* mutant: the target of a dynamic import is not loaded
resolve_load_static_only(self, specifier, referrer, range, is_dynamic) ==
  [self |-> IF ~is_dynamic
               /\ resolve(self.maybe_resolver, specifier, referrer, range).tag = "Specifier"
            THEN load(self,
                      resolve(self.maybe_resolver, specifier, referrer, range).specifier,
                      is_dynamic)
            ELSE self,
   resolved |-> resolve(self.maybe_resolver, specifier, referrer, range)]

\* mutant: the target is loaded as soon as it is known, before the policies
\* turn the resolution into an error
resolve_load_before_policy(self, specifier, referrer, range, is_dynamic) ==
  [self |-> IF resolved_specifier(self.maybe_resolver, specifier, referrer).ok
            THEN load(self,
                      resolved_specifier(self.maybe_resolver, specifier, referrer).value,
                      is_dynamic)
            ELSE self,
   resolved |-> resolve(self.maybe_resolver, specifier, referrer, range)]

resolve_load(self, specifier, referrer, range, is_dynamic) ==
  load_resolved(self, resolve(self.maybe_resolver, specifier, referrer, range), is_dynamic)

----------------------------------------------------------------------------
(* Builder::visit.  st is the visit in progress: the builder (self), the   *)
(* module being filled, the result of the latest resolve_load, and the     *)
(* history of this visit (trace, found).                                   *)

\* the visit after a resolve_load call that returned rl
Called(st, mechanism, specifier, range, is_dynamic, rl) ==
  [st EXCEPT
     !.self = rl.self,
     !.resolved = rl.resolved,
     !.found = IF rl.resolved.tag = "Specifier"
               THEN @ \cup {rl.resolved.specifier} ELSE @,
     !.trace = Append(@, [op |-> "resolve_load",
                          mechanism |-> mechanism,
                          specifier |-> specifier,
                          range |-> range,
                          is_dynamic |-> is_dynamic,
                          resolved |-> rl.resolved,
                          loaded |-> rl.self.loader_calls # st.self.loader_calls,
                          slots |-> DOMAIN rl.self.modules \ DOMAIN st.self.modules])]

\* one resolve_load call of the visit, with the module as the referrer
Call(st, mechanism, specifier, range, is_dynamic) ==
  Called(st, mechanism, specifier, range, is_dynamic,
         resolve_load(st.self, specifier, st.module.specifier, range, is_dynamic))

\* mutant: the entry is created and the assignment is left out
Write_skip(st, key, field) == [st EXCEPT !.module.dependencies = Insert(@, key, EntryOrDefault(@, key))]

\* an assignment of the latest resolution to a field of module.dependencies[key]
Write(st, key, field) ==
  [st EXCEPT
     !.module.dependencies =
        Insert(@, key, [EntryOrDefault(@, key) EXCEPT ![field] = st.resolved]),
     !.trace = Append(@, [op |-> "write", field |-> field, key |-> key,
                          old |-> EntryOrDefault(st.module.dependencies, key)[field],
                          new |-> st.resolved])]

\* module.dependencies.entry(key).or_default()
Entry(st, key) ==
  [st EXCEPT !.module.dependencies = Insert(@, key, EntryOrDefault(@, key))]

\* module.maybe_types_dependency = Some((specifier, resolved_dependency))
SetTypesDependency(st, specifier) ==
  [st EXCEPT !.module.maybe_types_dependency =
     <<[specifier |-> specifier, resolved |-> st.resolved]>>]

\* where the resolution of a types reference goes
types_reference(st, specifier) ==
  IF st.module.media_type \in {"JavaScript", "Jsx"}
  THEN SetTypesDependency(st, specifier)
  ELSE Write(st, specifier, "maybe_type")

\* one iteration of the loop over analyze_ts_references()
visit_reference(st, reference) ==
  IF reference.kind = "Path"
  THEN Write(Call(st, "path", reference.specifier, reference.range, FALSE),
             reference.specifier, "maybe_code")
  ELSE types_reference(Call(st, "types", reference.specifier, reference.range, FALSE),
                       reference.specifier)

\* mutant: the header is resolved whatever the reference comments left
visit_types_header_always(st, maybe_headers) ==
  IF maybe_headers # <<>> /\ maybe_headers[1].x_typescript_types # <<>>
  THEN SetTypesDependency(
         Call(st, "header", maybe_headers[1].x_typescript_types[1], DefaultRange, FALSE),
         maybe_headers[1].x_typescript_types[1])
  ELSE st

\* the X-TypeScript-Types header
visit_types_header(st, maybe_headers) ==
  IF st.module.maybe_types_dependency = <<>>
     /\ maybe_headers # <<>>
     /\ maybe_headers[1].x_typescript_types # <<>>
  THEN SetTypesDependency(
         Call(st, "header", maybe_headers[1].x_typescript_types[1], DefaultRange, FALSE),
         maybe_headers[1].x_typescript_types[1])
  ELSE st

\* analyze_deno_types(&desc).map(resolve_load).unwrap_or_else(|| Resolved::None)
visit_deno_types(st, desc) ==
  IF desc.deno_types = <<>>
  THEN [st EXCEPT !.resolved = Resolved_None]
  ELSE Call(st, "deno_types", desc.deno_types[1].specifier,
            desc.deno_types[1].range, desc.is_dynamic)

\* if dep.maybe_type.is_none() { dep.maybe_type = maybe_type }
fill_type(st, key) ==
  IF is_none(st.module.dependencies[key].maybe_type)
  THEN Write(st, key, "maybe_type")
  ELSE st

\* one iteration of the loop over analyze_dependencies()
visit_dependency(st, desc) ==
  fill_type(
    visit_deno_types(
      Write(Call(Entry(st, desc.specifier),
                 "import", desc.specifier, desc.range, desc.is_dynamic),
            desc.specifier, "maybe_code"),
      desc),
    desc.specifier)

RECURSIVE visit_references(_, _, _)
visit_references(st, references, i) ==
  IF i > Len(references) THEN st
  ELSE visit_references(visit_reference(st, references[i]), references, i + 1)

RECURSIVE visit_dependencies(_, _, _)
visit_dependencies(st, descriptors, j) ==
  IF j > Len(descriptors) THEN st
  ELSE visit_dependencies(visit_dependency(st, descriptors[j]), descriptors, j + 1)

\* the media type of a response: the content-type header, else the extension
response_media_type(response) ==
  IF response.maybe_headers # <<>> /\ response.maybe_headers[1].content_type # <<>>
  THEN MediaType_from_content_type(response.specifier,
                                   response.maybe_headers[1].content_type[1])
  ELSE MediaType_from(response.specifier)

\* the visit from the redirect record to the parse: the state the analysis starts in
visit_start(self, requested_specifier, response) ==
  [self |-> IF requested_specifier # response.specifier
            THEN [self EXCEPT !.redirects =
                    Insert(@, requested_specifier, response.specifier)]
            ELSE self,
   module |-> [Module_new(response.specifier, response.content)
                 EXCEPT !.media_type = response_media_type(response)],
   resolved |-> Resolved_None,
   found |-> {},
   trace |-> <<>>]

\* the analysis of a parsed module: references, header, dependencies
visit_analyze(st, parsed_module, maybe_headers) ==
  visit_dependencies(
    visit_types_header(
      visit_references(st, analyze_ts_references(parsed_module), 1),
      maybe_headers),
    analyze_dependencies(parsed_module), 1)

\* the match on the parse: the analysis, or nothing
visit_parsed(st, parsed, maybe_headers) ==
  IF parsed.ok THEN visit_analyze(st, parsed.value, maybe_headers) ELSE st

\* self.graph.modules.insert(specifier, module_slot)
visit_insert(st, parsed, specifier) ==
  [self |-> [st.self EXCEPT !.modules =
               Insert(@, specifier, IF parsed.ok THEN ModuleSlot_Module(st.module)
                                    ELSE ModuleSlot_Err("ParseErr"))],
   found |-> st.found,
   trace |-> st.trace]

\* the parse of a response, as the visit does it
ParseOf(response) ==
  ast_parse(response.specifier, response.content, response_media_type(response))

\* mutant: the slot is installed at the requested specifier
visit_at_requested(self, requested_specifier, response) ==
  visit_insert(
    visit_parsed(visit_start(self, requested_specifier, response),
                 ParseOf(response), response.maybe_headers),
    ParseOf(response), requested_specifier)

\* mutant: the dependencies are analyzed whether or not the parse succeeded
visit_analyze_unparsed(self, requested_specifier, response) ==
  visit_insert(
    visit_analyze(visit_start(self, requested_specifier, response),
                  response.content, response.maybe_headers),
    ParseOf(response), response.specifier)

visit(self, requested_specifier, response) ==
  visit_insert(
    visit_parsed(visit_start(self, requested_specifier, response),
                 ParseOf(response), response.maybe_headers),
    ParseOf(response), response.specifier)

----------------------------------------------------------------------------
(* The collaborators' behaviours the specifications draw from *)

SeqUpTo(S, n) == UNION {[1..k -> S] : k \in 0..n}

\* a resolver in the manner of an import map: "bare" is mapped next to the
\* referrer, a relative path is resolved as by default, the rest is rejected
ImportMapResolver ==
  [c \in ImportStrings \X ModuleSpecifier |->
     IF c[1] = "bare" THEN Ok(Url(c[2].scheme, "/a.ts"))
     ELSE IF c[1] \in DOMAIN RelativeImports THEN resolve_import(c[1], c[2])
     ELSE Err("not in the import map")]

\* a resolver that answers every call the same way
ConstResolver(answer) == [c \in ImportStrings \X ModuleSpecifier |-> answer]

ConstResolvers ==
  {ConstResolver(Err("rejected"))} \cup {ConstResolver(Ok(t)) : t \in ModuleSpecifier}

Import(specifier, is_dynamic, deno_types) ==
  [specifier |-> specifier, is_dynamic |-> is_dynamic, deno_types |-> deno_types]

Reference(kind, specifier) == [kind |-> kind, specifier |-> specifier]

\* the import statements of the traversal's sources
TraversalImports == {Import("./a.ts", FALSE, <<>>), Import("./b.js", TRUE, <<>>)}

\* one source that does not parse (an import statement is written in it), and
\* every source of up to MaxImports import statements
TraversalSources ==
  {Source(FALSE, <<>>, <<Import("./a.ts", FALSE, <<>>)>>)}
  \cup {Source(TRUE, <<>>, d) : d \in SeqUpTo(TraversalImports, MaxImports)}

\* what the loader may answer a load of `requested` with in the traversal: any
\* source, served at the requested specifier or redirected within its scheme
TraversalResponses(requested) ==
  {LoadResponse(Url(requested.scheme, p), <<>>, c) : p \in Paths, c \in TraversalSources}

\* the reference comments and import statements of the visit's sources
VisitReferences ==
  {Reference("Path", "./a.ts"), Reference("Types", "./a.ts"), Reference("Types", "bare")}

VisitImports ==
  {Import("./a.ts", FALSE, <<>>),
   Import("./a.ts", TRUE, <<>>),
   Import("http://h/a.ts", FALSE, <<>>),
   Import("./a.ts", FALSE, <<"./b.js">>),
   Import("./a.ts", FALSE, <<"bare">>)}

VisitSources ==
  {Source(TRUE, r, d) : r \in SeqUpTo(VisitReferences, MaxRefs),
                        d \in SeqUpTo(VisitImports, MaxDeps)}

VisitHeaders ==
  {<<>>,
   <<Headers(<<"application/javascript">>, <<>>)>>,
   <<Headers(<<>>, <<"./b.js">>)>>,
   <<Headers(<<"application/javascript">>, <<"./b.js">>)>>}

\* in the visit specification the root's response is any of the sources above
VisitResponses(requested) ==
  {LoadResponse(requested, h, c) : h \in VisitHeaders, c \in VisitSources}

----------------------------------------------------------------------------
(* Builder::new and Builder::build *)

Self ==
  [modules |-> modules, redirects |-> redirects, pending |-> pending,
   loader_calls |-> loader_calls, maybe_resolver |-> maybe_resolver]

\* mutant: the loop has no exit
Break_never(left) == "loop"

\* the loop's exit test: the loop goes on while a load is in flight
Break(left) == IF left = {} THEN "done" ELSE "loop"

\* Builder::new
New(roots, dynamic, resolvers, lockers, loaders) ==
  /\ root \in roots
  /\ is_dynamic_root \in dynamic
  /\ maybe_resolver \in {<<>>} \cup {<<r>> : r \in resolvers}
  /\ maybe_locker \in {<<>>} \cup {<<l>> : l \in lockers}
  /\ loader \in IF loaders = {} THEN {<<>>} ELSE {<<l>> : l \in loaders}
  /\ modules = EmptyMap
  /\ redirects = EmptyMap
  /\ pending = {}
  /\ pc = "new"
  /\ loader_calls = EmptyMap
  /\ discovered = {}
  /\ completed = EmptyMap
  /\ writer = EmptyMap
  /\ trace = <<>>

\* the builder's fields after a call that changed self
Becomes(self) ==
  /\ modules' = self.modules
  /\ redirects' = self.redirects
  /\ pending' = self.pending
  /\ loader_calls' = self.loader_calls
  /\ pc' = Break(self.pending)

\* build(): the root is loaded and the loop is entered
Build ==
  /\ pc = "new"
  /\ Becomes(load(Self, root, is_dynamic_root))
  /\ discovered' = {root}
  /\ UNCHANGED <<root, is_dynamic_root, maybe_resolver, maybe_locker, loader, completed, writer, trace>>

\* what a visit that returned v leaves
Visited(v) ==
  /\ Becomes(v.self)
  /\ discovered' = discovered \cup v.found
  /\ trace' = v.trace

\* a loop iteration: Some((specifier, Ok(Some(response))))
NextResponse(future, response) ==
  /\ pc = "loop"
  /\ future \in pending
  /\ Visited(visit([Self EXCEPT !.pending = @ \ {future}], future.specifier, response))
  /\ completed' = Insert(completed, future.specifier,
                         [outcome |-> "response", response |-> response])
  /\ writer' = Insert(writer, response.specifier, future.specifier)
  /\ UNCHANGED <<root, is_dynamic_root, maybe_resolver, maybe_locker, loader>>

\* mutant: a load that fails ends the build
Install_abort(future, outcome, module_slot) ==
  /\ pc = "loop"
  /\ future \in pending
  /\ modules' = Insert(modules, future.specifier, module_slot)
  /\ pending' = pending \ {future}
  /\ pc' = "done"
  /\ completed' = Insert(completed, future.specifier, [outcome |-> outcome])
  /\ writer' = Insert(writer, future.specifier, future.specifier)
  /\ trace' = <<>>
  /\ UNCHANGED <<root, is_dynamic_root, maybe_resolver, maybe_locker, loader, redirects, loader_calls, discovered>>

\* a loop iteration that installs a slot without a visit
Install(future, outcome, module_slot) ==
  /\ pc = "loop"
  /\ future \in pending
  /\ modules' = Insert(modules, future.specifier, module_slot)
  /\ pending' = pending \ {future}
  /\ pc' = Break(pending \ {future})
  /\ completed' = Insert(completed, future.specifier, [outcome |-> outcome])
  /\ writer' = Insert(writer, future.specifier, future.specifier)
  /\ trace' = <<>>
  /\ UNCHANGED <<root, is_dynamic_root, maybe_resolver, maybe_locker, loader, redirects, loader_calls, discovered>>

\* a loop iteration: Some((specifier, Ok(None)))
NextMissing(future) == Install(future, "missing", ModuleSlot_Missing)

\* a loop iteration: Some((specifier, Err(err)))
NextErr(future) == Install(future, "err", ModuleSlot_Err("LoadingErr"))

TraversalVisit == \E f \in pending : \E r \in TraversalResponses(f.specifier) : NextResponse(f, r)
RootVisit ==
  \E f \in pending :
    /\ f.specifier = root
    /\ \E r \in VisitResponses(f.specifier) : NextResponse(f, r)
Missing == \E f \in pending : NextMissing(f)
Failed == \E f \in pending : NextErr(f)

\* the traversal: a build from an https root, whose modules import one another
\* by relative paths and whose loads are answered in any way and in any order
Init == New({Url("https", "/mod.ts")}, {FALSE}, {}, {}, {})
Next == Build \/ TraversalVisit \/ Missing \/ Failed
Spec == Init /\ [][Next]_vars

\* the visit: a build whose root is any of the visit's sources, with or without
\* the import map, and whose other loads find nothing
VisitInit == New({Url("https", "/mod.ts")}, {FALSE}, {ImportMapResolver}, {}, {})
VisitNext == Build \/ RootVisit \/ Missing
VisitSpec == VisitInit /\ [][VisitNext]_vars

\* what a loader answers a load with: a response or not-found
Answer_Response(response) == [outcome |-> "response", response |-> response]
Answer_Missing == [outcome |-> "missing"]

\* the sources of the loaders below: no import, one, or both of the traversal's
OrderSources ==
  {Source(TRUE, <<>>, d) :
     d \in {<<>>,
            <<Import("./a.ts", FALSE, <<>>)>>,
            <<Import("./b.js", TRUE, <<>>)>>,
            <<Import("./a.ts", FALSE, <<>>), Import("./b.js", TRUE, <<>>)>>}}

OrderSpecifiers == {Url("https", p) : p \in Paths}

\* the loaders whose answer depends only on the requested specifier: each
\* specifier is not found, or served with some source at some specifier
OrderLoaders ==
  [OrderSpecifiers ->
     {Answer_Missing}
     \cup {Answer_Response(LoadResponse(Url("https", p), <<>>, c)) :
             p \in Paths, c \in OrderSources}]

OrderVisit ==
  \E f \in pending :
    /\ loader[1][f.specifier].outcome = "response"
    /\ NextResponse(f, loader[1][f.specifier].response)

OrderMissing ==
  \E f \in pending :
    /\ loader[1][f.specifier].outcome = "missing"
    /\ NextMissing(f)

\* the build with a loader that is a function of the requested specifier, its
\* loads completing in any order
OrderInit == New({Url("https", "/mod.ts")}, {FALSE}, {}, {}, OrderLoaders)
OrderNext == Build \/ OrderVisit \/ OrderMissing
OrderSpec == OrderInit /\ [][OrderNext]_vars

----------------------------------------------------------------------------
(* ModuleGraph::lock.  A locker is modelled by what check_or_insert answers *)
(* for each specifier; `order` is the order in which modules.iter() yields  *)
(* the slots.                                                               *)

InvalidSource(specifier) == [kind |-> "InvalidSource", specifier |-> specifier]

\* the arguments of one check_or_insert call
Checked(module) == [specifier |-> module.specifier, source |-> module.source]

\* mutant: a mismatch does not end the iteration
RECURSIVE lock_iter_ignore(_, _, _, _)
lock_iter_ignore(slots, locker, order, checked) ==
  IF order = <<>>
  THEN [result |-> Ok("()"), checked |-> checked]
  ELSE IF slots[Head(order)].tag = "Module"
       THEN lock_iter_ignore(slots, locker, Tail(order),
                             Append(checked, Checked(slots[Head(order)].module)))
       ELSE lock_iter_ignore(slots, locker, Tail(order), checked)

\* for (_, module_slot) in self.modules.iter() { .. }
RECURSIVE lock_iter(_, _, _, _)
lock_iter(slots, locker, order, checked) ==
  IF order = <<>>
  THEN [result |-> Ok("()"), checked |-> checked]
  ELSE IF slots[Head(order)].tag = "Module"
       THEN IF ~locker[slots[Head(order)].module.specifier]
            THEN [result |-> Err(InvalidSource(slots[Head(order)].module.specifier)),
                  checked |-> Append(checked, Checked(slots[Head(order)].module))]
            ELSE lock_iter(slots, locker, Tail(order),
                           Append(checked, Checked(slots[Head(order)].module)))
       ELSE lock_iter(slots, locker, Tail(order), checked)

\* the result of lock(), and the check_or_insert calls it made
lock(slots, locker, order) ==
  IF locker = <<>>
  THEN [result |-> Ok("()"), checked |-> <<>>]
  ELSE lock_iter(slots, locker[1], order, <<>>)

\* the orders in which a map with the keys S can be iterated
Orders(S) ==
  {o \in [1..Cardinality(S) -> S] : \A i, j \in DOMAIN o : o[i] = o[j] => i = j}

\* the lockers: for each specifier, what check_or_insert answers
Lockers == [OrderSpecifiers -> BOOLEAN]

\* the responses of the builds whose graph is locked: any source of the loaders
\* above or one that does not parse, served at any specifier
LockResponses(requested) ==
  {LoadResponse(Url(requested.scheme, p), <<>>, c) :
     p \in Paths, c \in OrderSources \cup {Source(FALSE, <<>>, <<>>)}}

LockVisit == \E f \in pending : \E r \in LockResponses(f.specifier) : NextResponse(f, r)

\* graph.lock() on the graph build() returned
Lock ==
  /\ pc = "done"
  /\ \E order \in Orders(DOMAIN modules) :
       trace' = <<[op |-> "lock",
                   order |-> order,
                   result |-> lock(modules, maybe_locker, order).result,
                   checked |-> lock(modules, maybe_locker, order).checked]>>
  /\ UNCHANGED <<root, is_dynamic_root, maybe_resolver, maybe_locker, loader, modules,
                 redirects, pending, pc, loader_calls, discovered, completed, writer>>

\* a build with or without a locker, and lock() on its graph
LockInit == New({Url("https", "/mod.ts")}, {FALSE}, {}, Lockers, {})
LockNext == Build \/ LockVisit \/ Missing \/ Lock
LockSpec == LockInit /\ [][LockNext]_vars

\* a build whose loads are answered with those responses, not found or failed,
\* in any order, by a loader whose every load completes: pending.next() yields
\* as long as a load is in flight
FairNext == Build \/ LockVisit \/ Missing \/ Failed
FairSpec == Init /\ [][FairNext]_vars /\ WF_vars(FairNext)

\* resolve() called on a new builder: any import string, referrer and range,
\* without a resolver, with the import map, or with a resolver giving any answer
ResolveRanges == {DefaultRange, ReferenceRange(1)}

ResolveCall ==
  /\ pc = "new"
  /\ \E specifier \in ImportStrings, referrer \in ModuleSpecifier, range \in ResolveRanges :
       trace' = <<[op |-> "resolve",
                   specifier |-> specifier,
                   referrer |-> referrer,
                   range |-> range,
                   resolved |-> resolve(maybe_resolver, specifier, referrer, range)]>>
  /\ UNCHANGED <<root, is_dynamic_root, maybe_resolver, maybe_locker, loader, modules, redirects, pending, pc,
                 loader_calls, discovered, completed, writer>>

ResolveInit ==
  New({Url("https", "/mod.ts")}, BOOLEAN, ConstResolvers \cup {ImportMapResolver}, {}, {})
ResolveNext == ResolveCall
ResolveSpec == ResolveInit /\ [][ResolveNext]_vars

----------------------------------------------------------------------------
(* Claims *)

Terminal == {"Module", "Err", "Missing"}

RECURSIVE SumCalls(_, _)
SumCalls(calls, keys) ==
  IF keys = {} THEN 0
  ELSE LET k == CHOOSE x \in keys : TRUE
       IN calls[k] + SumCalls(calls, keys \ {k})

\* the number of load operations issued to the loader
NumLoads == SumCalls(loader_calls, DOMAIN loader_calls)

\* the loads that completed with a response served at another specifier
Redirected ==
  {a \in DOMAIN completed :
     completed[a].outcome = "response" /\ completed[a].response.specifier # a}

\* the slot a visit of `response` installs
BuiltSlot(response) ==
  visit([modules |-> EmptyMap, redirects |-> EmptyMap, pending |-> {},
         loader_calls |-> EmptyMap, maybe_resolver |-> maybe_resolver],
        response.specifier, response).self.modules[response.specifier]

\* C1 (as claimed): when build() returns, every slot is Module, Err or Missing;
\* no slot is Pending.
C1_Totality ==
  pc = "done" => \A s \in DOMAIN modules : modules[s].tag \in Terminal

\* C2 (as claimed): when build() returns, the number of loads issued equals the
\* number of distinct specifiers discovered from the root, redirects or not.
C2_LoadsEqualDiscovered ==
  pc = "done" => NumLoads = Cardinality(discovered)

\* C2 (amended): every load is for a discovered specifier and no specifier is
\* loaded twice; a discovered specifier is never loaded only if it is the
\* effective specifier of a redirected response; with no redirect recorded the
\* number of loads equals the number of discovered specifiers.
C2_Deduplication ==
  /\ \A s \in DOMAIN loader_calls : loader_calls[s] = 1
  /\ DOMAIN loader_calls \subseteq discovered
  /\ \A s \in discovered \ DOMAIN loader_calls :
       \E a \in DOMAIN redirects : redirects[a] = s
  /\ (DOMAIN redirects = {} => NumLoads = Cardinality(discovered))

\* a finished build in which a specifier imported by two modules was loaded
\* once, and one in which a redirect target was imported and never loaded
C2_Witness ==
  /\ pc = "done"
  /\ discovered \ DOMAIN loader_calls # {}
  /\ Cardinality(DOMAIN loader_calls) >= 2

ResolveCalls == {i \in DOMAIN trace : trace[i].op = "resolve"}

\* C4: a resolution from an https referrer whose target, from the default
\* resolution or from the resolver, has scheme http is Err(InvalidDowngrade, span).
C4_DowngradeRule ==
  \A i \in ResolveCalls :
    LET e == trace[i]
        target == resolved_specifier(maybe_resolver, e.specifier, e.referrer)
    IN (e.referrer.scheme = "https" /\ target.ok /\ target.value.scheme = "http")
       => e.resolved = Resolved_Err("InvalidDowngrade", Span(e.referrer, e.range))

\* a downgrade rejected although a resolver produced the target
C4_Witness ==
  \E i \in ResolveCalls :
    /\ maybe_resolver # <<>>
    /\ trace[i].referrer.scheme = "https"
    /\ resolved_specifier(maybe_resolver, trace[i].specifier, trace[i].referrer)
         = Ok(Url("http", "/a.ts"))
    /\ trace[i].resolved.tag = "Err"
    /\ trace[i].resolved.error = "InvalidDowngrade"

\* C5: a resolution from an http or https referrer whose target is neither http
\* nor https is Err(InvalidLocalImport, span) without a resolver, and
\* Specifier(target, span) when a resolver produced the target.
C5_LocalEscapeRule ==
  \A i \in ResolveCalls :
    LET e == trace[i]
        target == resolved_specifier(maybe_resolver, e.specifier, e.referrer)
    IN (e.referrer.scheme \in {"http", "https"}
        /\ target.ok /\ target.value.scheme \notin {"http", "https"})
       => e.resolved =
            IF maybe_resolver = <<>>
            THEN Resolved_Err("InvalidLocalImport", Span(e.referrer, e.range))
            ELSE Resolved_Specifier(target.value, Span(e.referrer, e.range))

\* a local target allowed from a remote referrer because a resolver produced it
C5_Witness ==
  \E i \in ResolveCalls :
    /\ maybe_resolver # <<>>
    /\ trace[i].referrer.scheme = "http"
    /\ trace[i].resolved.tag = "Specifier"
    /\ trace[i].resolved.specifier.scheme = "file"

\* the import strings of `module` whose code edge reads Specifier(s)
CodeEdgesTo(module, s) ==
  {k \in DOMAIN module.dependencies :
     /\ module.dependencies[k].maybe_code.tag = "Specifier"
     /\ module.dependencies[k].maybe_code.specifier = s}

\* the modules of the graph with a code edge to s
Referrers(s) ==
  {t \in DOMAIN modules :
     modules[t].tag = "Module" /\ CodeEdgesTo(modules[t].module, s) # {}}

\* the loads that completed with a response whose slot is still in the graph
Installed ==
  {a \in DOMAIN completed :
     /\ completed[a].outcome = "response"
     /\ writer[completed[a].response.specifier] = a}

\* the writes of the latest visit to `field` of a dependency
Writes(field) == {i \in DOMAIN trace : trace[i].op = "write" /\ trace[i].field = field}

\* the resolve_load calls of the latest visit
ResolveLoads == {i \in DOMAIN trace : trace[i].op = "resolve_load"}

\* C6 (as claimed): within a visit, a write to the maybe_type of a dependency
\* that is already populated does not change it.
C6_FirstTypeWins ==
  \A i \in Writes("maybe_type") :
    ~is_none(trace[i].old) => trace[i].new = trace[i].old

\* C7 (as claimed): for every installed module and every import descriptor of
\* it, the dependency keyed by the descriptor's string has the descriptor's
\* dynamic flag, and a code edge Specifier(..) when the resolution succeeds.
C7_DynamicFlag ==
  \A a \in Installed :
    LET r == completed[a].response
        slot == modules[r.specifier]
    IN slot.tag = "Module" =>
         LET descs == analyze_dependencies(ParseOf(r).value)
         IN \A j \in DOMAIN descs :
              LET dep == slot.module.dependencies[descs[j].specifier]
              IN /\ dep.is_dynamic = descs[j].is_dynamic
                 /\ (resolve(maybe_resolver, descs[j].specifier, r.specifier,
                             descs[j].range).tag = "Specifier"
                     => dep.maybe_code.tag = "Specifier")

\* C8: a resolution of the visited module M that yields Err issues no load and
\* creates no slot; the build goes on; M is installed as a Module, and the
\* dependency keyed by the import string carries an Err of that kind: on its
\* code edge for an import or a path reference, on its type edge for a types
\* reference of a module that is not JavaScript.
C8_ResolutionErrorOnEdge ==
  \A i \in ResolveLoads :
    LET e == trace[i]
        m == e.resolved.span.specifier
    IN e.resolved.tag = "Err" =>
         /\ ~e.loaded
         /\ e.slots = {}
         /\ (pending # {} => pc = "loop")
         /\ m \in DOMAIN modules
         /\ modules[m].tag = "Module"
         /\ (e.mechanism \in {"path", "import"} =>
               /\ e.specifier \in DOMAIN modules[m].module.dependencies
               /\ modules[m].module.dependencies[e.specifier].maybe_code.tag = "Err"
               /\ modules[m].module.dependencies[e.specifier].maybe_code.error
                    = e.resolved.error)
         /\ (e.mechanism = "types"
             /\ modules[m].module.media_type \notin {"JavaScript", "Jsx"} =>
               /\ e.specifier \in DOMAIN modules[m].module.dependencies
               /\ modules[m].module.dependencies[e.specifier].maybe_type.tag = "Err"
               /\ modules[m].module.dependencies[e.specifier].maybe_type.error
                    = e.resolved.error)

\* an https root importing "http://h/a.ts" beside an import that is loaded
C8_Witness ==
  /\ pc = "loop"
  /\ pending # {}
  /\ Url("http", "/a.ts") \notin DOMAIN modules
  /\ root \in DOMAIN modules
  /\ modules[root].tag = "Module"
  /\ \E i \in ResolveLoads :
       /\ trace[i].mechanism = "import"
       /\ trace[i].specifier = "http://h/a.ts"
       /\ trace[i].resolved.tag = "Err"
       /\ trace[i].resolved.error = "InvalidDowngrade"
       /\ modules[root].module.dependencies["http://h/a.ts"].maybe_code = trace[i].resolved

\* the load of s completes in this step
Completes(s) == s \notin DOMAIN completed /\ s \in DOMAIN completed'

\* C9: when the load of S completes with not-found the slot of S becomes
\* Missing, and with a failure Err(LoadingErr); no other slot changes, so every
\* referrer's edge to S still reads Specifier(S); the other in-flight loads stay
\* in flight and the loop goes on while there is one.
C9_LoadFailurePerSpecifier ==
  [][\A s \in ModuleSpecifier :
       (Completes(s) /\ completed'[s].outcome \in {"missing", "err"}) =>
         /\ modules'[s] = IF completed'[s].outcome = "missing"
                          THEN ModuleSlot_Missing
                          ELSE ModuleSlot_Err("LoadingErr")
         /\ DOMAIN modules' = DOMAIN modules
         /\ \A t \in DOMAIN modules \ {s} : modules'[t] = modules[t]
         /\ \A t \in DOMAIN modules' :
              modules'[t].tag = "Module" =>
                CodeEdgesTo(modules'[t].module, s) = CodeEdgesTo(modules[t].module, s)
         /\ pending' = {f \in pending : f.specifier # s}
         /\ (pending' # {} => pc' = "loop")
         /\ redirects' = redirects]_vars

\* a not-found load whose referrer keeps its edge while another load is in flight
C9_Witness ==
  \E s \in DOMAIN completed :
    /\ completed[s].outcome = "missing"
    /\ modules[s] = ModuleSlot_Missing
    /\ Referrers(s) # {}
    /\ pending # {}
    /\ pc = "loop"

\* C10: when the response of a load does not parse, the slot at its effective
\* specifier becomes Err(ParseErr); the visit resolves nothing, issues no load
\* and creates no other slot, and no other slot changes, so the referrers keep
\* their Specifier edge.
C10_ParseFailureStopsVisit ==
  [][\A s \in ModuleSpecifier :
       (Completes(s) /\ completed'[s].outcome = "response"
        /\ ~ParseOf(completed'[s].response).ok) =>
         LET b == completed'[s].response.specifier
         IN /\ modules'[b] = ModuleSlot_Err("ParseErr")
            /\ trace' = <<>>
            /\ loader_calls' = loader_calls
            /\ discovered' = discovered
            /\ pending' = {f \in pending : f.specifier # s}
            /\ DOMAIN modules' = DOMAIN modules \cup {b}
            /\ \A t \in DOMAIN modules \ {b} : modules'[t] = modules[t]]_vars

\* a module that does not parse, with a referrer whose edge reads Specifier
C10_Witness ==
  \E s \in DOMAIN completed :
    /\ completed[s].outcome = "response"
    /\ ~ParseOf(completed[s].response).ok
    /\ modules[completed[s].response.specifier] = ModuleSlot_Err("ParseErr")
    /\ Referrers(completed[s].response.specifier) # {}

\* the specifier whose slot the completion c of the load of s writes
EffectiveOf(s, c) == IF c.outcome = "response" THEN c.response.specifier ELSE s

\* what bounds the loop: the specifiers without a slot and the loads in flight
Measure == Cardinality(ModuleSpecifier \ DOMAIN modules) + Cardinality(pending)

\* C11: when every load completes, build() eventually returns; once started it
\* has returned exactly when no load is in flight; and every loop iteration
\* completes one load, installs a terminal slot for it, and decreases the number
\* of specifiers without a slot plus the number of loads in flight.
C11_Termination ==
  /\ <>(pc = "done")
  /\ [](pc # "new" => (pc = "done" <=> pending = {}))
  /\ [][pc = "loop" =>
         /\ \E s \in DOMAIN completed' \ DOMAIN completed :
              modules'[EffectiveOf(s, completed'[s])].tag \in Terminal
         /\ Measure' < Measure]_vars

\* a build that returned after three loads, two of them in flight together
C11_Witness ==
  /\ pc = "done"
  /\ pending = {}
  /\ Cardinality(DOMAIN completed) = 3
  /\ Cardinality(DOMAIN loader_calls) = 3

\* one iteration of build()'s loop on the builder `self`
build_iteration(self, future, answer) ==
  IF answer.outcome = "response"
  THEN visit([self EXCEPT !.pending = @ \ {future}],
             future.specifier, answer.response).self
  ELSE [self EXCEPT !.pending = @ \ {future},
                    !.modules = Insert(@, future.specifier, ModuleSlot_Missing)]

\* build()'s loop when the loads complete in one fixed order
RECURSIVE build_loop(_, _)
build_loop(self, answers) ==
  IF self.pending = {} THEN self
  ELSE build_loop(
         build_iteration(self,
                         CHOOSE f \in self.pending : TRUE,
                         answers[(CHOOSE f \in self.pending : TRUE).specifier]),
         answers)

\* the graph of the run of build() from the same root, with the same loader, in
\* which the loads complete in that order
build ==
  build_loop(load([modules |-> EmptyMap, redirects |-> EmptyMap, pending |-> {},
                   loader_calls |-> EmptyMap, maybe_resolver |-> maybe_resolver],
                  root, is_dynamic_root),
             loader[1])

\* the completed loads whose response was visited at specifier b
Visits(b) ==
  {a \in DOMAIN completed :
     completed[a].outcome = "response" /\ completed[a].response.specifier = b}

\* C12 (as claimed): with a loader whose answer depends only on the requested
\* specifier, a run of build() whose loads complete in any order ends with the
\* module map and the redirect map of the run in the fixed order, and no
\* specifier is visited twice.
C12_OrderIndependence ==
  pc = "done" =>
    /\ modules = build.modules
    /\ redirects = build.redirects
    /\ \A b \in ModuleSpecifier : Cardinality(Visits(b)) <= 1

\* the lock() calls of the trace
LockCalls == {i \in DOMAIN trace : trace[i].op = "lock"}

\* the Module slots in the order the iteration yields them
ModulesIn(order) == SelectSeq(order, LAMBDA s : modules[s].tag = "Module")

\* the check_or_insert arguments for the first n of the slots ms
CheckedUpTo(ms, n) ==
  [k \in 1..n |-> [specifier |-> ms[k], source |-> modules[ms[k]].module.source]]

\* C13: lock() returns Ok without a locker, without calling anything; with a
\* locker it passes the Module slots, and only them, to check_or_insert in
\* iteration order as (specifier, source), returns Ok when every answer is true,
\* and otherwise stops at the first false answer and returns
\* Err(InvalidSource(s)) for that slot's specifier s; lock() changes neither the
\* module map nor the redirects.
C13_LockVerification ==
  /\ [](\A i \in LockCalls :
          LET e == trace[i]
              ms == ModulesIn(e.order)
              failing == {j \in DOMAIN ms : ~maybe_locker[1][ms[j]]}
              first == CHOOSE j \in failing : \A k \in failing : j <= k
          IN IF maybe_locker = <<>>
             THEN e.result = Ok("()") /\ e.checked = <<>>
             ELSE IF failing = {}
                  THEN e.result = Ok("()") /\ e.checked = CheckedUpTo(ms, Len(ms))
                  ELSE /\ e.result = Err(InvalidSource(ms[first]))
                       /\ e.checked = CheckedUpTo(ms, first))
  /\ [][pc = "done" => modules' = modules /\ redirects' = redirects]_vars

\* a lock() that skipped a slot that is no Module, failed on the first Module
\* slot and left a second Module slot unchecked
C13_Witness ==
  \E i \in LockCalls :
    /\ ~trace[i].result.ok
    /\ Len(trace[i].checked) = 1
    /\ Len(ModulesIn(trace[i].order)) = 2
    /\ modules[trace[i].order[1]].tag # "Module"

\* C14 (as claimed): within a visit, the write of an import's resolution to the
\* maybe_code of a dependency that a path reference or an earlier import already
\* populated does not change it, its span included.
C14_FirstCodeWins ==
  \A i \in Writes("maybe_code") :
    (trace[i - 1].mechanism = "import" /\ ~is_none(trace[i].old))
      => trace[i].new = trace[i].old

\* C15: load(specifier, _) on a builder that has a slot for specifier, of any
\* variant, returns the builder as it was; otherwise it inserts a Pending slot,
\* calls the loader once and adds that one load to the in-flight set; in a visit
\* a resolve_load call starts a load exactly when it creates the slot of its
\* target; and no specifier is ever loaded twice.
C15_SingleDeduplicationPoint ==
  /\ \A s \in ModuleSpecifier, d \in BOOLEAN :
       IF s \in DOMAIN modules
       THEN load(Self, s, d) = Self
       ELSE /\ load(Self, s, d).modules = Insert(modules, s, ModuleSlot_Pending)
            /\ load(Self, s, d).pending = pending \cup {LoadFuture(s, d)}
            /\ load(Self, s, d).loader_calls = Insert(loader_calls, s, 1)
            /\ load(Self, s, d).redirects = redirects
  /\ \A i \in ResolveLoads :
       /\ trace[i].loaded <=> trace[i].slots # {}
       /\ trace[i].loaded => trace[i].slots = {trace[i].resolved.specifier}
  /\ \A s \in DOMAIN loader_calls : loader_calls[s] <= 1

\* a visit in which one import started a load and another found a slot, with a
\* Pending and a Module slot in the map
C15_Witness ==
  /\ pc = "loop"
  /\ \E i, j \in ResolveLoads :
       /\ trace[i].loaded
       /\ trace[j].resolved.tag = "Specifier" /\ ~trace[j].loaded
  /\ \E s \in DOMAIN modules : modules[s].tag = "Pending"
  /\ \E s \in DOMAIN modules : modules[s].tag = "Module"

\* the resolve_load calls of the latest visit made for the header
HeaderCalls == {i \in ResolveLoads : trace[i].mechanism = "header"}

\* the types references among the references refs
TypesReferences(refs) == {i \in DOMAIN refs : refs[i].kind = "Types"}

\* what maybe_types_dependency holds after `specifier` was resolved for it
TypesDependency(specifier, referrer, range) ==
  <<[specifier |-> specifier,
     resolved |-> resolve(maybe_resolver, specifier, referrer, range)]>>

\* C16: right after the visit of a module, (1) if it is JavaScript/JSX and has a
\* types reference, the header was not resolved and maybe_types_dependency is
\* the (last) types reference with its resolution; (2) otherwise, if the
\* response has the x-typescript-types header, the header was resolved once,
\* after every reference, its target has a slot, and maybe_types_dependency is
\* the header with its resolution; (3) otherwise maybe_types_dependency is empty;
\* (4) in a module of another kind every types reference is on the maybe_type of
\* the dependency keyed by its string; (5) in a JavaScript/JSX module a
\* maybe_type comes only from an import's @deno-types hint.
C16_TypesHeaderPrecedence ==
  (DOMAIN completed = {root} /\ modules[root].tag = "Module") =>
    LET r == completed[root].response
        m == modules[root].module
        js == m.media_type \in {"JavaScript", "Jsx"}
        refs == analyze_ts_references(ParseOf(r).value)
        types == TypesReferences(refs)
        last == CHOOSE i \in types : \A k \in types : k <= i
        header == IF r.maybe_headers = <<>> THEN <<>>
                  ELSE r.maybe_headers[1].x_typescript_types
    IN /\ IF js /\ types # {}
          THEN /\ HeaderCalls = {}
               /\ m.maybe_types_dependency =
                    TypesDependency(refs[last].specifier, r.specifier, refs[last].range)
          ELSE IF header # <<>>
               THEN /\ Cardinality(HeaderCalls) = 1
                    /\ \A i \in HeaderCalls :
                         /\ trace[i].specifier = header[1]
                         /\ trace[i].resolved.tag = "Specifier"
                              => trace[i].resolved.specifier \in DOMAIN modules
                         /\ \A k \in ResolveLoads :
                              trace[k].mechanism \in {"path", "types"} => k < i
                    /\ m.maybe_types_dependency =
                         TypesDependency(header[1], r.specifier, DefaultRange)
               ELSE HeaderCalls = {} /\ m.maybe_types_dependency = <<>>
       /\ ~js => \A i \in types :
                   /\ refs[i].specifier \in DOMAIN m.dependencies
                   /\ ~is_none(m.dependencies[refs[i].specifier].maybe_type)
       /\ js => \A k \in DOMAIN m.dependencies :
                  ~is_none(m.dependencies[k].maybe_type) =>
                    \E j \in DOMAIN r.content.dependencies :
                      /\ r.content.dependencies[j].specifier = k
                      /\ r.content.dependencies[j].deno_types # <<>>

\* a JavaScript module with a types reference and the header: the reference is
\* stored and the header's target has no slot
C16_Witness ==
  /\ DOMAIN completed = {root}
  /\ modules[root].tag = "Module"
  /\ modules[root].module.media_type = "JavaScript"
  /\ completed[root].response.maybe_headers[1].x_typescript_types = <<"./b.js">>
  /\ modules[root].module.maybe_types_dependency # <<>>
  /\ modules[root].module.maybe_types_dependency[1].specifier = "./a.ts"
  /\ Url("https", "/b.js") \notin DOMAIN modules

\* C17: in every Module slot of the graph, during the build and when it has
\* returned, every Dependency has a maybe_code or a maybe_type that is not None.
C17_NoPlaceholderEdges ==
  \A s \in DOMAIN modules :
    modules[s].tag = "Module" =>
      \A k \in DOMAIN modules[s].module.dependencies :
        \/ ~is_none(modules[s].module.dependencies[k].maybe_code)
        \/ ~is_none(modules[s].module.dependencies[k].maybe_type)

\* a finished graph whose root has a dependency with only a type edge, and one
\* with only a code edge that is an error
C17_Witness ==
  /\ pc = "done"
  /\ modules[root].tag = "Module"
  /\ \E k \in DOMAIN modules[root].module.dependencies :
       /\ is_none(modules[root].module.dependencies[k].maybe_code)
       /\ ~is_none(modules[root].module.dependencies[k].maybe_type)
  /\ \E k \in DOMAIN modules[root].module.dependencies :
       /\ modules[root].module.dependencies[k].maybe_code.tag = "Err"
       /\ is_none(modules[root].module.dependencies[k].maybe_type)

\* C18 (as claimed): in a step of the build a slot that holds Module, Err or
\* Missing stays as it is, whatever load completes and wherever its response is
\* served; a slot changes only from Pending, and then to one of those three.
C18_SlotLifecycle ==
  [][\A s \in DOMAIN modules :
       /\ s \in DOMAIN modules'
       /\ modules[s].tag \in Terminal => modules'[s] = modules[s]
       /\ modules'[s] # modules[s] => modules'[s].tag \in Terminal]_vars

\* C19 (as claimed): once build() has loaded the root, between iterations and
\* when it has returned, a specifier's slot is Pending exactly if a load
\* requested for it is in flight, and the slot of a specifier whose load was
\* processed is not Pending.
C19_PendingMatchesInFlight ==
  pc # "new" =>
    /\ \A s \in DOMAIN modules :
         modules[s].tag = "Pending" <=> \E f \in pending : f.specifier = s
    /\ \A s \in DOMAIN completed : modules[s].tag # "Pending"

\* the resolutions stored in a module: on its dependencies' code and type edges
\* and in maybe_types_dependency
StoredResolutions(module) ==
  {module.dependencies[k].maybe_code : k \in DOMAIN module.dependencies}
  \cup {module.dependencies[k].maybe_type : k \in DOMAIN module.dependencies}
  \cup {module.maybe_types_dependency[i].resolved :
          i \in DOMAIN module.maybe_types_dependency}

\* C20: in the graph, during the build and when it has returned, every
\* Specifier(t, _) stored in a Module slot, from a static or a dynamic import, a
\* reference, a type hint or the header, has a slot for t.
C20_GraphClosed ==
  \A s \in DOMAIN modules :
    modules[s].tag = "Module" =>
      \A r \in StoredResolutions(modules[s].module) :
        r.tag = "Specifier" => r.specifier \in DOMAIN modules

\* a finished graph whose root has a dynamic import's code edge, a type edge
\* and a maybe_types_dependency, each to a specifier with a slot
C20_Witness ==
  /\ pc = "done"
  /\ modules[root].tag = "Module"
  /\ \E j \in DOMAIN completed[root].response.content.dependencies :
       /\ completed[root].response.content.dependencies[j].is_dynamic
       /\ modules[root].module.dependencies["./a.ts"].maybe_code.tag = "Specifier"
  /\ \E k \in DOMAIN modules[root].module.dependencies :
       modules[root].module.dependencies[k].maybe_type.tag = "Specifier"
  /\ modules[root].module.maybe_types_dependency # <<>>
  /\ modules[root].module.maybe_types_dependency[1].resolved.tag = "Specifier"
  /\ Cardinality(DOMAIN modules) = 3

====
